---- MODULE Spec2Model ----
(***************************************************************************)
(* TkLineNumbers (src/tklinenums/tklinenums.py): the line-number gutter    *)
(* attached to a tkinter Text widget.  The model covers the gesture        *)
(* handlers bound in __init__, the auto-scroll `after` chain, the wheel    *)
(* normalisation scroll_fix and the part of the Text widget the handlers   *)
(* read and write (caret, selection, viewport), and redraw with its        *)
(* configuration (justify, colors, tilde) over a Text widget whose lines   *)
(* can be elided.                                                          *)
(*                                                                         *)
(* Encodings.  A text index "L.C" is the pair <<L, C>>.  Python's None is  *)
(* the empty tuple <<>>.  The selection ("sel" tag) is None or the pair    *)
(* <<start, end>> with start < end.  An `after` handle "after#n" is <<n>>. *)
(* The tilde option is None or <<"~">>; the colors option is None, a pair   *)
(* <<fg, bg>> or <<"callable">>.                                            *)
(* Pixels: every text line is LineH pixels high and every character one    *)
(* pixel wide; the gutter and the Text widget are both WinH pixels high.   *)
(***************************************************************************)
EXTENDS Integers, Sequences, FiniteSets, TLC

\* ---- bounds of the model ------------------------------------------------
NumLines == 4
LineLen == 1
LineH == 2
MaxAfter == 2

\* the Text widget and the gutter show two lines' height, and the Text
\* widget is as wide as its lines (nothing to scroll sideways)
WinH == 2 * LineH
ViewCols == LineLen

None == <<>>

VARIABLES
    click_pos,          \* self.click_pos: None or the anchor index
    cancellable_after,  \* self.cancellable_after: None or an after handle
    xy,                 \* (self.x, self.y): None or the stored pointer pixel
    width,              \* the canvas's width option, set by resize()
    labels,             \* the canvas's text items
    foreground_color,   \* self.foreground_color
    bg,                 \* self["bg"]
    raised,             \* the exception the last redraw let escape, or "none"
    justify,            \* self.justify
    colors,             \* self.colors
    tilde,              \* self.tilde
    nlines,             \* the Text widget's text: its number of lines
    elided,             \* the Text widget's lines under an elide tag
    palette,            \* the theme the Text widget and the style show now
    insert,             \* the Text widget's insert mark (caret)
    sel,                \* the Text widget's sel tag range
    ytop,               \* the Text widget's vertical scroll offset, pixels
    xleft,              \* the Text widget's horizontal scroll offset, chars
    afters,             \* Tk's queue of scheduled text_auto_scan callbacks
    after_id,           \* Tk's counter of after handles handed out
    btn,                \* the primary button is held
    ptr,                \* the pointer is "in" or "out" of the gutter
    SYSTEM,             \* platform.system() read at import
    ev                  \* the last event delivered (history)

vars == <<click_pos, cancellable_after, xy, width, labels, foreground_color,
          bg, raised, justify, colors, tilde, nlines, elided, palette, insert,
          sel, ytop, xleft, afters, after_id, btn, ptr, SYSTEM, ev>>

gutter == <<click_pos, cancellable_after, xy>>
editor == <<insert, sel, ytop, xleft>>
canvas == <<width, labels, foreground_color, bg, raised>>
config == <<justify, colors, tilde>>
text == <<nlines, elided>>

\* ---- helpers ------------------------------------------------------------
Min(a, b) == IF a < b THEN a ELSE b
Max(a, b) == IF a > b THEN a ELSE b
Clamp(v, lo, hi) == Max(lo, Min(v, hi))

\* Text.index("end"): the line after the last one, column 0
EndIndex == <<nlines + 1, 0>>

\* Text.compare(a, ">", b)
compare_gt(a, b) == a[1] > b[1] \/ (a[1] = b[1] /\ a[2] > b[2])

\* the largest vertical / horizontal scroll offsets of the Text widget
MaxTop == Max(0, (nlines - Cardinality(elided)) * LineH - WinH)
MaxLeft == Max(0, LineLen - ViewCols)

\* ---- the Text widget, as the handlers use it ---------------------------
\* an elided line takes no room: the display row (from 0) of line l of a
\* text whose lines el are elided, and the line shown on row r of a text of
\* n lines (the last shown line when r is past it)
RowOf(el, l) == IF el = {} THEN l - 1 ELSE l - 1 - Cardinality({k \in el : k < l})
LineAtRow(n, el, r) ==
    IF el = {} THEN Min(n, r + 1)
    ELSE LET rr == Min(r, n - Cardinality(el) - 1)
         IN  CHOOSE l \in (rr + 1)..Min(n, rr + 1 + Cardinality(el)) :
                 l \notin el /\ RowOf(el, l) = rr

\* Text.index(f"@{x},{y}") on a text of n lines with the lines el elided
index_in(n, el, yt, xl, x, y) ==
    <<LineAtRow(n, el, (yt + Clamp(y, 0, WinH - 1)) \div LineH),
      Min(LineLen, xl + Max(0, x))>>

\* Text.index(f"@{x},{y}"): the index of the character closest to the pixel
index_at(yt, xl, x, y) == index_in(nlines, elided, yt, xl, x, y)

\* Text.dlineinfo(f"{l}.0"): <<x, y>> of the line's box, None when the line
\* is elided, scrolled out of the window or past the end of the text
dlineinfo(n, el, yt, l) ==
    IF l > n \/ l \in el \/ RowOf(el, l) * LineH - yt + LineH <= 0
             \/ RowOf(el, l) * LineH - yt >= WinH
    THEN None
    ELSE <<0, RowOf(el, l) * LineH - yt>>

\* Text.yview_scroll(n, "units"): n lines, the top aligned to a line
yview_scroll_units(yt, n) == Clamp((yt \div LineH + n) * LineH, 0, MaxTop)

\* Text.yview_scroll(n, "pixels")
yview_scroll_pixels(yt, n) == Clamp(yt + n, 0, MaxTop)

\* Text.xview_scroll(n, "units")
xview_scroll_units(xl, n) == Clamp(xl + n, 0, MaxLeft)

\* Text.see(pos): the least scroll that shows pos entirely, <<ytop, xleft>>
see(yt, xl, pos) ==
    <<IF RowOf(elided, pos[1]) * LineH < yt THEN RowOf(elided, pos[1]) * LineH
      ELSE IF (RowOf(elided, pos[1]) + 1) * LineH > yt + WinH
           THEN Min(MaxTop, (RowOf(elided, pos[1]) + 1) * LineH - WinH)
      ELSE yt,
      IF pos[2] < xl THEN Min(pos[2], MaxLeft)
      ELSE IF pos[2] >= xl + ViewCols
           THEN Min(MaxLeft, pos[2] - ViewCols + 1)
      ELSE xl>>

\* the index "pos + 1 line": same column one line down, "end" past the text
plus_one_line(pos) ==
    IF pos[1] + 1 <= nlines THEN <<pos[1] + 1, pos[2]>> ELSE EndIndex

\* tag_remove("sel", "1.0", "end") then tag_add("sel", start, end):
\* Tk adds nothing when end is not after start
tag_add(start, end) == IF compare_gt(end, start) THEN <<start, end>> ELSE None

\* ---- the canvas ---------------------------------------------------------
RECURSIVE Digits(_)
Digits(n) == IF n < 10 THEN 1 ELSE 1 + Digits(n \div 10)

\* resize() that measures the number without the blanks around it
resize_unpadded(n) ==
    IF n + 1 <= 1000 THEN Len(" 1234 ") ELSE Digits(n + 1)

\* resize() over a text of n lines (its "end" is line n + 1): the measured
\* width of " 1234 " or of " {end} ", every character one unit wide
resize(n) ==
    IF n + 1 <= 1000 THEN Len(" 1234 ") ELSE Digits(n + 1) + 2

\* the width resize() sets over the text as it is
resize_width == resize(nlines)

\* winfo_width() / winfo_height() of the gutter
Border == 2
winfo_width == width + 2 * Border
winfo_height == WinH

\* the keys of the anchor table the labels are created with
Justifications == {"left", "right", "center"}

\* textwidget["fg"], textwidget["bg"] and the pair a callable color provider
\* returns, under the theme pal
TextColors(pal) == <<"text-fg-" \o pal, "text-bg-" \o pal>>
StyleColors(pal) == <<"style-fg-" \o pal, "style-bg-" \o pal>>

\* set_colors that resolves against the theme of the construction
set_colors_once(pal) ==
    IF colors = None THEN TextColors("light")
    ELSE IF Len(colors) = 2 THEN colors
    ELSE StyleColors("light")

\* set_colors(): the new <<self.foreground_color, self["bg"]>>
set_colors(pal) ==
    IF colors = None THEN TextColors(pal)
    ELSE IF Len(colors) = 2 THEN colors
    ELSE StyleColors(pal)

\* redraw's max_lines: the lines that fit in the Text widget
max_lines == WinH \div LineH

\* redraw's _range, the end of its loop over the line numbers
loop_range(n, el, yt, ins) ==
    LET last_line == index_in(n, el, yt, 0, 0, WinH)[1]
    IN  IF tilde # None /\ last_line < max_lines
        THEN last_line + max_lines + 1 - ins[1]
        ELSE last_line + 1

\* one round of redraw's loop, for line number l with line_elided and
\* dlineinfo as read from the Text widget: the kind of label it creates and
\* the label's y, or the exception it raises, or "skip".  max_lines is
\* unbound when no tilde was given, and the anchor table has the three
\* justifications only
line_step(l, line_elided, dl) ==
    IF line_elided \/ (dl = None /\ tilde # None)
    THEN IF tilde = None THEN <<"NameError", 0>>
         ELSE IF l > max_lines THEN <<"skip", 0>>
         ELSE IF justify \notin Justifications THEN <<"KeyError", 0>>
         ELSE <<"tilde", (l - 1) * LineH>>
    ELSE IF dl = None THEN <<"skip", 0>>
    ELSE IF justify \notin Justifications THEN <<"KeyError", 0>>
    ELSE <<"number", dl[2]>>

\* the text item create_text adds for line number l; x is <<p, q>> for p / q
create_text(l, kind, y, w, fg) ==
    [x |-> IF justify = "left" THEN <<0, 1>>
           ELSE IF justify = "right" THEN <<w, 1>>
           ELSE <<w, 2>>,
     y |-> y,
     text |-> IF justify # "center"
              THEN " " \o (IF kind = "tilde" THEN tilde[1] ELSE ToString(l))
                       \o " "
              ELSE IF kind = "tilde" THEN tilde[1] ELSE ToString(l),
     anchor |-> CASE justify = "left" -> "nw"
                  [] justify = "right" -> "ne"
                  [] justify = "center" -> "n",
     fill |-> fg]

\* what redraw() leaves behind over a text of n lines with the lines el
\* elided, scrolled to yt, the caret at ins, under the theme pal: the loop
\* ends at the first line number that raises
drawn(n, el, yt, ins, pal) ==
    LET first_line == index_in(n, el, yt, 0, 0, 0)[1]
        _range == loop_range(n, el, yt, ins)
        steps == {<<l, line_step(l, l \in el, dlineinfo(n, el, yt, l))>> :
                    l \in first_line..(_range - 1)}
        failed == {s[1] : s \in {t \in steps :
                                   t[2][1] \in {"NameError", "KeyError"}}}
        c == set_colors(pal)
    IN  [width |-> resize(n),
         fg |-> c[1],
         bg |-> c[2],
         labels |-> {create_text(s[1], s[2][1], s[2][2], resize(n), c[1]) :
                       s \in {t \in steps :
                                /\ \A k \in failed : t[1] < k
                                /\ t[2][1] \in {"tilde", "number"}}},
         raised |-> IF failed = {} THEN "none"
                    ELSE (CHOOSE t \in steps :
                            t[1] \in failed /\ \A k \in failed : t[1] <= k)[2][1]]

\* redraw() whose resize never narrows the canvas below the width it has
\* on the screen
redraw_text_feedback(n, el, yt, ins, pal) ==
    \E d \in {drawn(n, el, yt, ins, pal)} :
        /\ width' = Max(d.width, winfo_width)
        /\ foreground_color' = d.fg
        /\ bg' = d.bg
        /\ labels' = d.labels
        /\ raised' = d.raised

\* redraw() over the text (n, el) under the theme pal
redraw_text(n, el, yt, ins, pal) ==
    \E d \in {drawn(n, el, yt, ins, pal)} :
        /\ width' = d.width
        /\ foreground_color' = d.fg
        /\ bg' = d.bg
        /\ labels' = d.labels
        /\ raised' = d.raised

\* redraw() as the handlers call it: the text and the theme are as they were
redraw(yt, ins) == redraw_text(nlines, elided, yt, ins, palette)

\* ---- scroll_fix and the wheel -------------------------------------------
\* scroll_fix with the sign of the Windows branch lost
scroll_fix_unsigned(delta, num) ==
    IF delta \in {4, 5} /\ num THEN (IF delta = 4 THEN 1 ELSE -1)
    ELSE IF SYSTEM = "Darwin" THEN -delta
    ELSE delta \div 120

\* scroll_fix(delta, num); Python's // is floor division, as \div is
scroll_fix(delta, num) ==
    IF delta \in {4, 5} /\ num THEN (IF delta = 4 THEN 1 ELSE -1)
    ELSE IF SYSTEM = "Darwin" THEN -delta
    ELSE -(delta \div 120)

\* event.num of a button event as an integer ("??" on any other event)
NumOf(e) == IF e.num = "4" THEN 4 ELSE IF e.num = "5" THEN 5 ELSE 1

\* the unit count mouse_scroll hands to yview_scroll
wheel_units(e) ==
    scroll_fix(IF e.delta # 0 THEN e.delta ELSE NumOf(e), e.num # "??")

mouse_scroll(e) ==
    /\ ytop' = yview_scroll_units(ytop, wheel_units(e))
    /\ redraw(ytop', insert)
    /\ UNCHANGED <<gutter, text, insert, sel, xleft, afters, after_id>>

\* ---- the click handlers -------------------------------------------------
shift_click(e) ==
    LET start_pos == insert
        end_pos == index_at(ytop, xleft, 0, e.y)
    IN  /\ sel' = IF compare_gt(start_pos, end_pos)
                  THEN tag_add(end_pos, start_pos)
                  ELSE tag_add(start_pos, end_pos)
        /\ redraw(ytop, insert)
        /\ UNCHANGED <<gutter, text, insert, ytop, xleft, afters, after_id>>

\* click_see that leaves the old selection in place
click_see_keeps_sel(e) ==
    IF e.state = 1
    THEN shift_click(e)
    ELSE LET line == index_at(ytop, xleft, e.x, e.y)[1]
             pos == <<line, 0>>
             view == see(ytop, xleft, pos)
         IN  /\ insert' = pos
             /\ ytop' = view[1]
             /\ xleft' = view[2]
             /\ click_pos' = pos
             /\ redraw(view[1], pos)
             /\ UNCHANGED <<text, sel, cancellable_after, xy, afters,
                            after_id>>

click_see(e) ==
    IF e.state = 1
    THEN shift_click(e)
    ELSE LET line == index_at(ytop, xleft, e.x, e.y)[1]
             pos == <<line, 0>>
             view == see(ytop, xleft, pos)
         IN  /\ sel' = None
             /\ insert' = pos
             /\ ytop' = view[1]
             /\ xleft' = view[2]
             /\ click_pos' = pos
             /\ redraw(view[1], pos)
             /\ UNCHANGED <<text, cancellable_after, xy, afters, after_id>>

\* unclick that forgets to clear the anchor
unclick_keeps_anchor ==
    UNCHANGED <<click_pos, cancellable_after, xy, canvas, text, editor,
                afters, after_id>>

unclick ==
    /\ click_pos' = None
    /\ UNCHANGED <<cancellable_after, xy, canvas, text, editor, afters,
                   after_id>>

\* double_click that cuts the line out of the text instead of selecting it
double_click_cut ==
    /\ nlines' = Max(1, nlines - 1)
    /\ elided' = elided
    /\ sel' = None
    /\ redraw_text(nlines', elided', ytop, insert, palette)
    /\ UNCHANGED <<gutter, insert, ytop, xleft, afters, after_id>>

double_click ==
    /\ sel' = tag_add(insert, plus_one_line(insert))
    /\ redraw(ytop, insert)
    /\ UNCHANGED <<gutter, text, insert, ytop, xleft, afters, after_id>>

\* ---- drag selection and auto-scroll -------------------------------------
\* select_text that never swaps the two ends
select_text_unordered(yt, xl, x, y) ==
    <<tag_add(click_pos, index_at(yt, xl, x, y)), index_at(yt, xl, x, y)>>

\* select_text that leaves the caret where it was
select_text_keeps_caret(yt, xl, x, y) ==
    LET drag_pos == index_at(yt, xl, x, y)
    IN  <<IF compare_gt(drag_pos, click_pos)
          THEN tag_add(click_pos, drag_pos)
          ELSE tag_add(drag_pos, click_pos),
          insert>>

\* select_text(x, y) on a Text scrolled to (yt, xl): the new <<sel, insert>>
select_text(yt, xl, x, y) ==
    LET drag_pos == index_at(yt, xl, x, y)
    IN  <<IF compare_gt(drag_pos, click_pos)
          THEN tag_add(click_pos, drag_pos)
          ELSE tag_add(drag_pos, click_pos),
          drag_pos>>

in_widget_select_mouse_drag(e) ==
    IF click_pos = None
    THEN UNCHANGED <<gutter, canvas, text, editor, afters, after_id>>
    ELSE LET st == select_text(ytop, xleft, e.x - winfo_width, e.y)
         IN  /\ xy' = <<e.x, e.y>>
             /\ sel' = st[1]
             /\ insert' = st[2]
             /\ redraw(ytop, st[2])
             /\ UNCHANGED <<click_pos, cancellable_after, text, ytop, xleft,
                            afters, after_id>>

\* the Text widget's <<ytop, xleft>> after text_auto_scan's scroll with the
\* stored pointer at p, or None when the pointer is in bounds (the return)
auto_scan_scroll(p) ==
    IF p[2] >= winfo_height
    THEN <<yview_scroll_pixels(ytop, 1 + p[2] - winfo_height), xleft>>
    ELSE IF p[2] < 0 THEN <<yview_scroll_pixels(ytop, -1 + p[2]), xleft>>
    ELSE IF p[1] >= winfo_width THEN <<ytop, xview_scroll_units(xleft, 2)>>
    ELSE IF p[1] < 0 THEN <<ytop, xview_scroll_units(xleft, -2)>>
    ELSE None

\* text_auto_scan without its click_pos test: it scrolls, then select_text
\* raises on the None anchor and the handler ends there
text_auto_scan_unguarded(p, pending) ==
    IF auto_scan_scroll(p) = None
    THEN /\ afters' = pending
         /\ UNCHANGED <<click_pos, cancellable_after, canvas, text, editor,
                        after_id>>
    ELSE /\ afters' = pending
         /\ ytop' = auto_scan_scroll(p)[1]
         /\ xleft' = auto_scan_scroll(p)[2]
         /\ UNCHANGED <<click_pos, cancellable_after, canvas, text, insert,
                        sel, after_id>>

\* text_auto_scan with (self.x, self.y) = p; `pending` is Tk's after queue
\* when the body runs
text_auto_scan(p, pending) ==
    IF click_pos = None \/ auto_scan_scroll(p) = None
    THEN /\ afters' = pending
         /\ UNCHANGED <<click_pos, cancellable_after, canvas, text, editor,
                        after_id>>
    ELSE LET view == auto_scan_scroll(p)
             st == select_text(view[1], view[2], p[1] - winfo_width, p[2])
         IN  /\ after_id < MaxAfter
             /\ ytop' = view[1]
             /\ xleft' = view[2]
             /\ sel' = st[1]
             /\ insert' = st[2]
             /\ after_id' = after_id + 1
             /\ cancellable_after' = <<after_id'>>
             /\ afters' = pending \cup {<<after_id'>>}
             /\ redraw(view[1], st[2])
             /\ UNCHANGED <<click_pos, text>>

mouse_off_screen_scroll(e) ==
    /\ xy' = <<e.x, e.y>>
    /\ text_auto_scan(<<e.x, e.y>>, afters)

stop_mouse_off_screen_scroll ==
    /\ IF cancellable_after # None
       THEN /\ afters' = afters \ {cancellable_after}
            /\ cancellable_after' = None
       ELSE UNCHANGED <<afters, cancellable_after>>
    /\ UNCHANGED <<click_pos, xy, canvas, text, editor, after_id>>

\* ---- events -------------------------------------------------------------
\* the gutter's extent in pixels and the pointer pixels the events carry
GutterW == resize_width + 2 * Border
InBounds(x, y) == 0 <= x /\ x < GutterW /\ 0 <= y /\ y < WinH
Within(x, y) == IF InBounds(x, y) THEN "in" ELSE "out"
\* on the first and on the last visible line; above, below, left of, right
\* of, and right of and below the gutter
Pts == {<<0, 0>>, <<0, WinH - 1>>, <<0, -1>>, <<0, WinH>>, <<-1, 0>>,
        <<GutterW + 1, 0>>, <<GutterW + 1, WinH>>}
InPts == {p \in Pts : InBounds(p[1], p[2])}

\* event.state: 0 none, 1 Shift, 2 Lock, 3 Shift+Lock, 256 Button1
Event(t, x, y, st, d, n) ==
    [type |-> t, x |-> x, y |-> y, state |-> st, delta |-> d, num |-> n]

\* the end of __init__: set_colors() and redraw() on the new canvas
constructed ==
    \E d \in {drawn(nlines, elided, ytop, insert, palette)} :
        /\ width = d.width
        /\ foreground_color = d.fg
        /\ bg = d.bg
        /\ labels = d.labels
        /\ raised = d.raised

\* the default widget over a text of NumLines lines: TkLineNumbers(master,
\* textwidget)
Init ==
    /\ click_pos = None
    /\ cancellable_after = None
    /\ xy = None
    /\ justify = "left"
    /\ colors = None
    /\ tilde = None
    /\ nlines = NumLines
    /\ elided = {}
    /\ palette = "light"
    /\ insert = <<2, 1>>
    /\ sel = None
    /\ ytop = 0
    /\ xleft = 0
    /\ afters = {}
    /\ after_id = 0
    /\ btn = FALSE
    /\ ptr = "out"
    /\ SYSTEM \in {"Darwin", "Linux"}
    /\ ev = Event("init", 0, 0, 0, 0, "??")
    /\ constructed

\* <Button-1>: a press in the gutter that is not the second of a double click
Press ==
    \E p \in InPts, st \in {0, 1, 3} :
        /\ ~btn /\ ptr = "in"
        /\ ev' = Event("Button-1", p[1], p[2], st, 0, "1")
        /\ click_see(ev')
        /\ btn' = TRUE
        /\ UNCHANGED <<config, palette, ptr, SYSTEM>>

\* <Double-Button-1>: a press where a click (a press and its release, with
\* nothing between) has just ended; Tk runs the most specific binding only,
\* so click_see does not run
DoublePress ==
    \E st \in {0, 1} :
        /\ ~btn /\ ptr = "in"
        /\ ev.type = "ButtonRelease-1" /\ InBounds(ev.x, ev.y)
        /\ ev' = Event("Double-Button-1", ev.x, ev.y, st, 0, "1")
        /\ double_click
        /\ btn' = TRUE
        /\ UNCHANGED <<config, palette, ptr, SYSTEM>>

\* <ButtonRelease-1>: delivered to the gutter wherever the pointer is; the
\* event carries the pixel of the press when it ends a click, (-1, -1) when
\* anything came between
Release ==
    /\ btn
    /\ ev' = IF ev.type \in {"Button-1", "Double-Button-1"}
             THEN Event("ButtonRelease-1", ev.x, ev.y, 256, 0, "1")
             ELSE Event("ButtonRelease-1", -1, -1, 256, 0, "1")
    /\ unclick
    /\ btn' = FALSE
    /\ UNCHANGED <<config, palette, ptr, SYSTEM>>

\* <Button1-Motion>: the pointer moves with the button held, in or out of
\* the gutter (the press grabbed the pointer)
Motion ==
    \E p \in Pts :
        /\ btn /\ Within(p[1], p[2]) = ptr
        /\ ev' = Event("Button1-Motion", p[1], p[2], 256, 0, "??")
        /\ in_widget_select_mouse_drag(ev')
        /\ UNCHANGED <<config, palette, btn, ptr, SYSTEM>>

\* <Button1-Leave>: the pointer leaves the gutter with the button held
Leave ==
    \E p \in Pts \ InPts :
        /\ btn /\ ptr = "in"
        /\ ev' = Event("Button1-Leave", p[1], p[2], 256, 0, "??")
        /\ mouse_off_screen_scroll(ev')
        /\ ptr' = "out"
        /\ UNCHANGED <<config, palette, btn, SYSTEM>>

\* <Button1-Enter>: the pointer comes back with the button held
Enter ==
    /\ btn /\ ptr = "out"
    /\ ev' = Event("Button1-Enter", 0, 0, 256, 0, "??")
    /\ stop_mouse_off_screen_scroll
    /\ ptr' = "in"
    /\ UNCHANGED <<config, palette, btn, SYSTEM>>

\* <Enter> and <Leave> with no button held: nothing is bound to them
Cross ==
    /\ ~btn
    /\ ptr' = IF ptr = "in" THEN "out" ELSE "in"
    /\ ev' = Event(IF ptr = "in" THEN "Leave" ELSE "Enter", 0, 0, 0, 0, "??")
    /\ UNCHANGED <<gutter, canvas, config, text, palette, editor, afters,
                   after_id, btn, SYSTEM>>

\* Tk runs a scheduled text_auto_scan; the handle leaves the queue first
AfterFires ==
    \E h \in afters :
        /\ ev' = Event("after", 0, 0, 0, 0, "??")
        /\ text_auto_scan(xy, afters \ {h})
        /\ UNCHANGED <<config, palette, xy, btn, ptr, SYSTEM>>

\* <MouseWheel>, in multiples of 120 or, on macOS, in single steps, and
\* <Button-4>/<Button-5> on X11
Wheel ==
    \E d \in {-240, -120, -1, 1, 120, 240}, n \in {"??", "4", "5"} :
        /\ ptr = "in"
        /\ d \in {-1, 1} => (SYSTEM = "Darwin" /\ n = "??")
        /\ ev' = IF n = "??" THEN Event("MouseWheel", 0, 0, 0, d, n)
                 ELSE Event("Button-" \o n, 0, 0, 0, 0, n)
        /\ n # "??" => SYSTEM = "Linux"
        /\ mouse_scroll(ev')
        /\ UNCHANGED <<config, palette, btn, ptr, SYSTEM>>

\* there is a widget once __init__ has returned: the exception of its
\* redraw() ends the construction
Constructed == ~(ev.type = "init" /\ raised # "none")

\* redraw(), called by Tk as the Text widget's yscrollcommand or by the host
Redraw ==
    /\ Constructed
    /\ ev' = Event("redraw", 0, 0, 0, 0, "??")
    /\ redraw(ytop, insert)
    /\ UNCHANGED <<gutter, config, text, palette, editor, afters, after_id,
                   btn, ptr, SYSTEM>>

\* <<ThemeChanged>>: set_colors() alone
ThemeChanged ==
    /\ Constructed
    /\ ev' = Event("ThemeChanged", 0, 0, 0, 0, "??")
    /\ foreground_color' = set_colors(palette)[1]
    /\ bg' = set_colors(palette)[2]
    /\ UNCHANGED <<gutter, width, labels, raised, config, text, palette,
                   editor, afters, after_id, btn, ptr, SYSTEM>>

Next ==
    \/ Press
    \/ DoublePress
    \/ Release
    \/ Motion
    \/ Leave
    \/ Enter
    \/ Cross
    \/ AfterFires
    \/ Wheel

Spec == Init /\ [][Next]_vars

\* ---- redraw under every configuration ----------------------------------
\* the line counts the host's edits reach: the small texts, and the counts
\* on either side of each change of the number of digits of the last line
\* number
LineCounts == (1..NumLines) \cup {9, 10, 99, 100, 999, 1000, 9999, 10000}

\* TkLineNumbers(master, textwidget, justify, colors, tilde) over a text of
\* NumLines lines, none elided; __init__ takes any string as justify
InitDraw ==
    /\ click_pos = None
    /\ cancellable_after = None
    /\ xy = None
    /\ justify \in Justifications \cup {"top"}
    /\ colors \in {None, <<"#e3ba68", "#1D1E1E">>, <<"callable">>}
    /\ tilde \in {None, <<"~">>}
    /\ nlines = NumLines
    /\ elided = {}
    /\ palette = "light"
    /\ insert = <<1, 0>>
    /\ sel = None
    /\ ytop = 0
    /\ xleft = 0
    /\ afters = {}
    /\ after_id = 0
    /\ btn = FALSE
    /\ ptr = "out"
    /\ SYSTEM = "Linux"
    /\ ev = Event("init", 0, 0, 0, 0, "??")
    /\ constructed

\* the host edits the text (lines come or go) and Tk, or the host's <Key>
\* binding, calls redraw(); the Text widget keeps its caret and its view
\* inside the text.  Lines are elided in texts of up to NumLines lines only
TextChanged ==
    \E n \in LineCounts \ {nlines} :
        /\ Constructed
        /\ n > NumLines => elided = {}
        /\ elided \cap (1..n) # 1..n
        /\ ev' = Event("text", 0, 0, 0, 0, "??")
        /\ nlines' = n
        /\ elided' = elided \cap (1..n)
        /\ insert' = <<Min(insert[1], n), insert[2]>>
        /\ ytop' = Min(ytop, Max(0, (n - Cardinality(elided')) * LineH - WinH))
        /\ redraw_text(n, elided', ytop', insert', palette)
        /\ UNCHANGED <<gutter, config, palette, sel, xleft, afters, after_id,
                       btn, ptr, SYSTEM>>

\* the host puts a line under a tag with elide set, or takes it out, and
\* redraw() is called; one line at least stays shown
ElideChanged ==
    \E l \in 1..Min(nlines, NumLines) :
        /\ Constructed
        /\ nlines <= NumLines
        /\ ev' = Event("elide", 0, 0, 0, 0, "??")
        /\ elided' = IF l \in elided THEN elided \ {l} ELSE elided \cup {l}
        /\ elided' # 1..nlines
        /\ nlines' = nlines
        /\ ytop' = Min(ytop, Max(0, (nlines - Cardinality(elided')) * LineH
                                      - WinH))
        /\ redraw_text(nlines, elided', ytop', insert, palette)
        /\ UNCHANGED <<gutter, config, palette, insert, sel, xleft, afters,
                       after_id, btn, ptr, SYSTEM>>

\* the host scrolls the Text widget by a line and Tk calls its
\* yscrollcommand, redraw()
Scrolled ==
    \E n \in {-1, 1} :
        /\ Constructed
        /\ yview_scroll_units(ytop, n) <= NumLines * LineH
        /\ ev' = Event("yview", 0, 0, 0, 0, "??")
        /\ ytop' = yview_scroll_units(ytop, n)
        /\ redraw(ytop', insert)
        /\ UNCHANGED <<gutter, config, text, palette, insert, sel, xleft,
                       afters, after_id, btn, ptr, SYSTEM>>

\* the caret moves to another line in the Text widget and the host's
\* binding calls redraw()
CaretMoved ==
    \E l \in 1..Min(nlines, NumLines) :
        /\ Constructed
        /\ l # insert[1]
        /\ ev' = Event("insert", 0, 0, 0, 0, "??")
        /\ insert' = <<l, 0>>
        /\ redraw(ytop, insert')
        /\ UNCHANGED <<gutter, config, text, palette, sel, ytop, xleft,
                       afters, after_id, btn, ptr, SYSTEM>>

\* the host switches the theme: the Text widget's fg and bg and the pair
\* the callable returns change; the gutter is not told
PaletteChanged ==
    /\ Constructed
    /\ ev' = Event("palette", 0, 0, 0, 0, "??")
    /\ palette' = IF palette = "light" THEN "dark" ELSE "light"
    /\ UNCHANGED <<gutter, canvas, config, text, editor, afters, after_id,
                   btn, ptr, SYSTEM>>

NextDraw ==
    \/ Redraw
    \/ ThemeChanged
    \/ TextChanged
    \/ ElideChanged
    \/ Scrolled
    \/ CaretMoved
    \/ PaletteChanged

SpecDraw == InitDraw /\ [][NextDraw]_vars

\* ---- the claims ---------------------------------------------------------
\* an index lies in the selection [start, end)
InSel(pos) ==
    sel # None /\ ~compare_gt(sel[1], pos) /\ compare_gt(sel[2], pos)
\* every character of line l lies in the selection
LineInside(l) == \A c \in 0..(LineLen - 1) : InSel(<<l, c>>)
\* the selection that tag_add leaves for the two ends, low to high
Span(a, b) == IF compare_gt(a, b) THEN tag_add(b, a) ELSE tag_add(a, b)

\* C1: at most one scheduled text_auto_scan callback is outstanding in
\* every reachable state.
C1_AtMostOneAfter == Cardinality(afters) <= 1

\* C2: right after the release handler, click_pos is None and no
\* text_auto_scan callback is scheduled.
C2_ReleaseCancels ==
    ev.type = "ButtonRelease-1" => (click_pos = None /\ afters = {})

\* C3: right after the re-entry handler (stop_mouse_off_screen_scroll), no
\* text_auto_scan callback is scheduled.
C3_EnterCancels == ev.type = "Button1-Enter" => afters = {}

\* C4: click_pos is non-null only while the primary button is held; it is
\* None initially, after every release, and during a press handled as a
\* shift-click.
C4_AnchorOnlyWhileHeld ==
    /\ click_pos # None => btn
    /\ ev.type \in {"init", "ButtonRelease-1"} => click_pos = None
    /\ (ev.type = "Button-1" /\ ev.state = 1) => click_pos = None

\* an unmodified press captured an anchor and a drag is under way
C4_Witness == click_pos # None /\ btn /\ ev.type = "Button1-Motion"

\* C5: with click_pos None, a drag motion, a leave with the button held and
\* a timer firing leave caret, selection and viewport as they are and
\* schedule no callback.
C5_NullAnchorNoOp ==
    [][(click_pos = None
        /\ ev'.type \in {"Button1-Motion", "Button1-Leave", "after"})
       => (editor' = editor /\ afters' \subseteq afters
           /\ after_id' = after_id)]_vars

\* a scheduled callback fired after the release and re-armed nothing
C5_Witness == ev.type = "after" /\ click_pos = None /\ afters = {}

\* C6: after click_see for an unmodified press on a pixel of line L, the
\* selection is empty, the caret is at L.0 and click_pos is L.0.
C6_UnmodifiedClick ==
    [][(ev'.type = "Button-1" /\ ev'.state = 0)
       => LET L == index_at(ytop, xleft, ev'.x, ev'.y)[1]
          IN  sel' = None /\ insert' = <<L, 0>> /\ click_pos' = <<L, 0>>]_vars

\* an unmodified press on the last line of the text
C6_Witness ==
    /\ ev.type = "Button-1" /\ ev.state = 0
    /\ click_pos = <<NumLines, 0>> /\ insert = click_pos /\ sel = None

\* C7: a press with the shift bit set in event.state, whatever other bits
\* are set, captures no anchor, leaves the caret and selects the span
\* between the caret and the clicked position.
C7_ShiftClickAnyBits ==
    [][(ev'.type = "Button-1" /\ ev'.state % 2 = 1)
       => (click_pos' = None /\ insert' = insert
           /\ sel' = Span(insert, index_at(ytop, xleft, 0, ev'.y)))]_vars

C9_DoubleClickSelectsLine ==
    [][ev'.type = "Double-Button-1"
       => LET L == index_at(ytop, xleft, ev'.x, ev'.y)[1]
          IN  /\ sel' = <<<<L, 0>>, <<L + 1, 0>>>>
              /\ insert' = insert
              /\ click_pos' = click_pos]_vars

\* C10: off macOS a MouseWheel delta of 120*k hands -k units to
\* yview_scroll, the Text widget scrolls by them, and the opposite delta
\* gives the opposite count.
C10_WheelMultiplesOf120 ==
    [][(ev'.type = "MouseWheel" /\ SYSTEM # "Darwin" /\ ev'.delta % 120 = 0)
       => LET k == ev'.delta \div 120
          IN  /\ wheel_units(ev') = -k
              /\ ytop' = yview_scroll_units(ytop, -k)
              /\ wheel_units([ev' EXCEPT !.delta = -ev'.delta])
                     = -wheel_units(ev')]_vars

\* a delta of -240 scrolled the Text widget two lines down from the top
C10_Witness ==
    /\ ev.type = "MouseWheel" /\ ev.delta = -240 /\ SYSTEM = "Linux"
    /\ ytop = 2 * LineH

\* ---- every operation of the gutter --------------------------------------
\* the gestures, the timer and the wheel, with redraw() and set_colors()
\* called on their own between them, on one platform
InitOps == Init /\ SYSTEM = "Linux"
NextOps == Next \/ Redraw \/ ThemeChanged
SpecOps == InitOps /\ [][NextOps]_vars

\* C11: constructing the widget with a justify other than left, right or
\* center fails at once with TkLineNumError, and after a valid construction no
\* operation ever raises TkLineNumError.
C11_InvalidJustifyRejected ==
    /\ (ev.type = "init" /\ justify \notin Justifications)
           => raised = "TkLineNumError"
    /\ justify \in Justifications => raised # "TkLineNumError"

\* the labels that show the number of line l, and the line number a tilde
\* label stands for
NumberLabels(l) == {lab \in labels : lab.text \in {ToString(l),
                                                     " " \o ToString(l) \o " "}}
TildeLabels == {lab \in labels : lab.text \in {"~", " ~ "}}
TildeLine(lab) == lab.y \div LineH + 1

\* C12: whether or not a tilde is configured, redraw() completes without
\* raising on every text, and an elided line of the visible range gets no
\* line-number label.
C12_RedrawNeverFails ==
    justify \in Justifications =>
        /\ raised = "none"
        /\ \A l \in elided : NumberLabels(l) = {}

\* C13: with a tilde configured, redraw() draws the tilde only at line numbers
\* past the last line of the text, never at the number of a line the text
\* has.
C13_TildeOnlyPastTheText ==
    (tilde # None /\ justify \in Justifications) =>
        \A lab \in TildeLabels : TildeLine(lab) > nlines

\* the events whose handler is, or ends in, redraw() on the canvas
RedrawEvents == {"redraw", "text", "elide", "yview", "insert"}

\* C14: at the end of every redraw() the labels' fill and the gutter's bg are
\* the color source's value at that moment: the Text widget's fg and bg when
\* colors is None, the pair as given when colors is a pair, what the callable
\* returns now when colors is a callable.
C14_ColorsReResolved ==
    [][ev'.type \in RedrawEvents =>
          /\ colors = None =>
                 /\ foreground_color' = "text-fg-" \o palette'
                 /\ bg' = "text-bg-" \o palette'
          /\ colors = <<"#e3ba68", "#1D1E1E">> =>
                 /\ foreground_color' = "#e3ba68"
                 /\ bg' = "#1D1E1E"
          /\ colors = <<"callable">> =>
                 /\ foreground_color' = "style-fg-" \o palette'
                 /\ bg' = "style-bg-" \o palette'
          /\ \A lab \in labels' : lab.fill = foreground_color']_vars

\* a redraw after the theme changed under a callable provider: the labels
\* are drawn in the color the callable returns now
C14_Witness ==
    /\ ev.type = "redraw" /\ palette = "dark" /\ colors = <<"callable">>
    /\ bg = "style-bg-dark"
    /\ labels # {} /\ \A lab \in labels : lab.fill = "style-fg-dark"

\* C15: no operation of the gutter (redraw, resize, set_colors, click,
\* shift-click, double click, drag, wheel, leave, re-entry, release, timer
\* firing) changes the text of the Text widget; only the caret, the selection
\* and the view change.
C15_TextUnchanged == [][text' = text]_vars

\* a double click after a scroll and an auto-scroll: the caret, the selection
\* and the view have all changed, and the text is the one of the construction
C15_Witness ==
    /\ ev.type = "Double-Button-1" /\ after_id > 0
    /\ insert # <<2, 1>> /\ sel # None /\ ytop # 0
    /\ text = <<NumLines, {}>>

\* C16: redraw() leaves click_pos, the timer handle, the caret, the selection
\* and the view as they were, and a redraw() that follows a redraw() (or the
\* construction) with nothing between leaves the same labels (text, x, y,
\* fill), the same width and the same colors.
C16_RedrawIdempotent ==
    [][ev'.type = "redraw" =>
          /\ UNCHANGED <<click_pos, cancellable_after, afters, editor>>
          /\ ev.type \in {"redraw", "init"} =>
                 UNCHANGED <<labels, width, foreground_color, bg>>]_vars

\* a redraw() in the middle of a drag with its timer armed, the view scrolled
\* and text selected
C16_Witness ==
    /\ ev.type = "redraw" /\ labels # {}
    /\ click_pos # None /\ cancellable_after # None /\ afters # {}
    /\ sel # None /\ ytop # 0

\* C17: when the last line number of the text grows from k digits to k + 1
\* digits, the width resize() sets afterwards is not smaller than the width
\* it had set before; the width is that of " 1234 " while the text has at
\* most 1000 lines and that of " N " past that (N the line of "end"), a
\* character measuring one unit.
C17_WidthMonotone ==
    [][ev'.type = "text" =>
          /\ Digits(nlines') = Digits(nlines) + 1 => width' >= width
          /\ width' = IF nlines' <= 1000 THEN Len(" 1234 ")
                      ELSE Len(" " \o ToString(nlines' + 1) \o " ")]_vars

\* the text has grown to 1000 lines, where resize() switches from " 1234 "
\* to " 1001 "
C17_Witness ==
    ev.type = "text" /\ nlines = 1000 /\ width = Len(" 1001 ")

\* the steps in which select_text runs: a drag in the gutter, and a leave or
\* a timer firing that scrolls (they arm the next timer), all with an anchor
SelectStep ==
    /\ click_pos # None
    /\ \/ ev'.type = "Button1-Motion"
       \/ ev'.type \in {"Button1-Leave", "after"} /\ after_id' # after_id

\* C18: after every selection step of a drag or of the auto-scroll, with an
\* anchor, the caret is at the position resolved from the pointer, and the
\* selection runs from the lower to the higher of click_pos and that position
\* (it is empty when the two are the same), whichever of them is the higher.
C18_SelectionOrdered ==
    [][SelectStep =>
          LET drag_pos == index_at(ytop', xleft', xy'[1] - winfo_width, xy'[2])
          IN  /\ insert' = drag_pos
              /\ sel' = None => drag_pos = click_pos
              /\ sel' # None =>
                     /\ ~compare_gt(sel'[1], sel'[2])
                     /\ {sel'[1], sel'[2]} = {click_pos, drag_pos}]_vars

\* a drag to above the anchor: the selection starts at the caret and ends at
\* click_pos
C18_Witness ==
    /\ ev.type = "Button1-Motion" /\ click_pos # None /\ sel # None
    /\ sel[2] = click_pos /\ sel[1] = insert /\ compare_gt(click_pos, insert)

\* C19: while the button is held and the pointer is outside the gutter, every
\* timer firing scrolls the Text widget and arms exactly one new callback;
\* once the button is released, every firing takes a callback off the queue
\* and arms none and scrolls nothing, so the chain ends.
C19_ChainRunsThenStops ==
    [][ev'.type = "after" =>
          /\ (btn /\ ptr = "out") =>
                 /\ after_id' = after_id + 1
                 /\ Cardinality(afters' \ afters) = 1
                 /\ cancellable_after' \in afters'
          /\ ~btn =>
                 /\ afters' \subseteq afters /\ afters' # afters
                 /\ after_id' = after_id
                 /\ editor' = editor]_vars

\* C20: whenever a timer firing scrolls the Text widget or changes the
\* selection, the button is held and the pointer is outside the gutter: the
\* stored self.x, self.y are those of the gesture under way.
C20_ScrollsOnlyOutside ==
    [][(ev'.type = "after" /\ (editor' # editor \/ after_id' # after_id))
          => (btn /\ ptr = "out")]_vars

\* ---- the wheel across the input backends --------------------------------
\* the direction of a unit count: 1 down the text, -1 up, 0 none
Sign(n) == IF n > 0 THEN 1 ELSE IF n < 0 THEN -1 ELSE 0

\* one notch of the wheel as <MouseWheel> reports it on this platform
Notch == IF SYSTEM = "Darwin" THEN 1 ELSE 120

\* C21: a wheel-up event (a positive MouseWheel delta, or Button-4 on X11)
\* hands yview_scroll a count of the same sign as one MouseWheel notch up
\* does on the platform, and a wheel-down event (a negative delta, or
\* Button-5) one of the same sign as one notch down.
C21_WheelDirectionConsistent ==
    [][ev'.type \in {"MouseWheel", "Button-4", "Button-5"}
       => LET up == ev'.delta > 0 \/ ev'.type = "Button-4"
              notch == Event("MouseWheel", 0, 0, 0,
                             IF up THEN Notch ELSE -Notch, "??")
          IN  Sign(wheel_units(ev')) = Sign(wheel_units(notch))]_vars

\* ---- a click on the edge of the viewport --------------------------------
\* the first and the last line with a pixel in the window
first_visible == index_at(ytop, xleft, 0, 0)[1]
last_visible == index_at(ytop, xleft, 0, WinH - 1)[1]

\* C22: an unmodified press on the first or on the last visible line moves
\* the caret to the line, shows it, and scrolls the Text widget one more
\* unit towards that edge; a press on any other visible line leaves the
\* view where it was.
C22_EdgeClickNudges ==
    [][(ev'.type = "Button-1" /\ ev'.state = 0)
       => LET L == index_at(ytop, xleft, ev'.x, ev'.y)[1]
              shown == see(ytop, xleft, <<L, 0>>)[1]
          IN  /\ insert' = <<L, 0>>
              /\ ytop' = IF L = first_visible
                         THEN yview_scroll_units(shown, -1)
                         ELSE IF L = last_visible
                         THEN yview_scroll_units(shown, 1)
                         ELSE ytop]_vars

\* ---- the stored timer handle --------------------------------------------
\* C23: cancellable_after is a handle exactly when a text_auto_scan
\* callback is scheduled, and the handle is then one of a scheduled
\* callback, never one of a callback that has run or was cancelled.
C23_HandleConsistent ==
    /\ cancellable_after # None <=> afters # {}
    /\ cancellable_after # None => cancellable_after \in afters

====
